---- MODULE Spec2Model ----
(***************************************************************************)
(* Model of the kkm-paper upstream-fetch and paper-store subsystems:       *)
(*   - the proxy-side getWithRetry of the ssSearch and ssPaper functions,  *)
(*   - the browser-side getWithRetry of the Semantic Scholar client,       *)
(*   - the in-memory response caches of the two proxy handlers,            *)
(*   - the storePaper function: validation, blob naming, PDF acquisition   *)
(*     and the two uploads into the blob container.                        *)
(* Times are milliseconds.  Strings the handlers inspect are sequences of  *)
(* one-character strings.                                                  *)
(***************************************************************************)
EXTENDS Integers, Sequences, FiniteSets, TLC

VARIABLES clock, cache, req, call, blobs, st, view

vars == <<clock, cache, req, call, blobs, st, view>>

(***************************************************************************)
(* Bounds of the model.                                                    *)
(***************************************************************************)
NumReqs == 2
NumStores == 2
MaxClock == 60000
MaxRunning == 2

Reqs == 1..NumReqs
Stores == 1..NumStores
TickSteps == {15000}

(***************************************************************************)
(* Program constants.                                                      *)
(***************************************************************************)
\* faulty variant: one attempt too many
maxAttemptsPlusOne == 4 + 1
maxAttempts == 4

\* one browser-side call and the proxy invocations it can cause: the k-th
\* request of the browser is served by invocation k
Hops == 1..maxAttempts
Browser == maxAttempts + 1
Slots == Reqs \cup Hops \cup {Browser}
BaseDelayMs == 500
MaxDelayMs == 8000
SearchTtlMs == 20000
PaperTtlMs == 60000
DefaultLimit == 10
DefaultTimeoutMs == 15000
BrowserTimeoutMs == 20000
MaxLimit == 100

Min(a, b) == IF a < b THEN a ELSE b
Max(a, b) == IF a > b THEN a ELSE b

(***************************************************************************)
(* Upstream outcomes of one axios.get.  status = 0 means that no response  *)
(* was received; code is the axios error code of such a failure.           *)
(* The Retry-After header is absent, a seconds count, an HTTP-date (kept   *)
(* as the absolute time it denotes) or unparseable text.                   *)
(***************************************************************************)
NoHeader == [form |-> "none", n |-> 0]
SecsHeader(n) == [form |-> "secs", n |-> n]
DateHeader(t) == [form |-> "date", n |-> t]
JunkHeader == [form |-> "junk", n |-> 0]

NoHint == [has |-> FALSE, ms |-> 0]
Hint(ms) == [has |-> TRUE, ms |-> ms]

NoOutcome == [status |-> 0, code |-> "", ra |-> NoHeader, data |-> ""]

RetryHeaders(now) ==
    {NoHeader, SecsHeader(9), SecsHeader(0), DateHeader(now + 3000),
     DateHeader(now - 1000), JunkHeader}

HeadersFor(s, now) == IF s \in {429, 503} THEN RetryHeaders(now) ELSE {NoHeader}
BodiesFor(s) ==
    IF s < 400 THEN {"d1", "d2"} ELSE IF s = 404 THEN {"e1", "undefined"} ELSE {"e1"}

StatusOutcomes(S, now) ==
    UNION {{[status |-> s, code |-> "", ra |-> h, data |-> d] :
              h \in HeadersFor(s, now), d \in BodiesFor(s)} : s \in S}

FailOutcomes ==
    {[status |-> 0, code |-> c, ra |-> NoHeader, data |-> ""] :
       c \in {"ECONNABORTED", "ERR_NETWORK"}}

\* every outcome a single getWithRetry call is driven with
Outcomes(now) == StatusOutcomes({200, 404, 429, 500, 503}, now) \cup FailOutcomes

\* the outcomes the concurrent proxy requests are driven with
CoreOutcomes ==
    {o \in StatusOutcomes({200, 404, 429, 503}, 0) : o.ra = NoHeader}

(***************************************************************************)
(* parseRetryAfterMs: the hint in ms.  A seconds count that is not         *)
(* positive falls through to Date.parse, whose answer for a bare numeral   *)
(* is left to the engine: no date (null) or a past date (clamped to 0).    *)
(***************************************************************************)
parseRetryAfterMs(h, now) ==
    CASE h.form = "none" -> {NoHint}
      [] h.form = "secs" -> IF h.n > 0 THEN {Hint(h.n * 1000)}
                                       ELSE {NoHint, Hint(0)}
      [] h.form = "date" -> {Hint(IF h.n - now > 0 THEN h.n - now ELSE 0)}
      [] OTHER -> {NoHint}

\* browser side: ra && !Number.isNaN(Number(ra)) ? Number(ra) * 1000 : null
browserRetryAfterMs(h) ==
    IF h.form = "secs" THEN Hint(h.n * 1000) ELSE NoHint

ComputedDelay(attempt) == Min(MaxDelayMs, BaseDelayMs * 2^(attempt - 1))

\* faulty variant: the 8000 ms cap applied to the server hint as well
BackoffCapped(attempt, ra) ==
    Min(MaxDelayMs, IF ra.has THEN ra.ms ELSE ComputedDelay(attempt))

\* ra ?? Math.min(8000, 500 * 2 ** (attempt - 1))
Backoff(attempt, ra) == IF ra.has THEN ra.ms ELSE ComputedDelay(attempt)

\* validateStatus of the two axios clients
ProxyValidateStatus(s) == s >= 200 /\ s < 500
BrowserValidateStatus(s) == s >= 200 /\ s < 300

\* faulty variants: 404 retried as well; 429 not retried
ProxyRetryStatusWide(s) == s \in {404, 429, 503}
ProxyRetryStatusNarrow(s) == s = 503

\* res.status === 429 || res.status === 503
ProxyRetryStatus(s) == s \in {429, 503}

BrowserRetryable(o) ==
    \/ o.status = 429
    \/ o.status = 503
    \/ o.code = "ECONNABORTED"
    \/ o.code = "ERR_NETWORK"

(***************************************************************************)
(* State of one getWithRetry call.                                         *)
(*   attempt  the loop counter, the number of requests sent so far         *)
(*   hist     the outcomes received so far (status and code)               *)
(*   sleeps   the number of sleep() calls made                             *)
(*   backoff  the delay computed last: attempt, the Retry-After header of  *)
(*            the outcome, the hint taken from it and the result           *)
(***************************************************************************)
NoBackoff == [n |-> 0, hdr |-> NoHeader, ra |-> NoHint, ms |-> 0]

NoCall == [pc |-> "none", side |-> "", attempt |-> 0, hist |-> <<>>,
           sleeps |-> 0, backoff |-> NoBackoff, wakeAt |-> 0, sentAt |-> 0,
           res |-> NoOutcome]

\* the axios timeout of a request: no request stays pending beyond it
TimeoutMs(side) == IF side = "browser" THEN BrowserTimeoutMs ELSE DefaultTimeoutMs

StartCall(side, now) ==
    [NoCall EXCEPT !.pc = "fetching", !.side = side, !.attempt = 1,
                   !.sentAt = now]

Seen(o) == [status |-> o.status, code |-> o.code]

Returned(c, o) == [c EXCEPT !.pc = "returned", !.res = o, !.sentAt = 0,
                            !.hist = Append(@, Seen(o))]
Thrown(c, o) == [c EXCEPT !.pc = "thrown", !.res = o, !.sentAt = 0,
                          !.hist = Append(@, Seen(o))]
Slept(c, o, ms, now) == [c EXCEPT !.pc = "sleeping", !.sentAt = 0,
                                  !.hist = Append(@, Seen(o)),
                                  !.sleeps = @ + 1, !.wakeAt = now + ms]
Computed(c, o, ra) ==
    [c EXCEPT !.backoff = [n |-> c.attempt, hdr |-> o.ra, ra |-> ra,
                           ms |-> Backoff(c.attempt, ra)]]

\* the body of the proxy-side loop after axios.get settled with outcome o
ProxyStep(c, o, now) ==
    IF o.status # 0 /\ ProxyValidateStatus(o.status)
    THEN IF ProxyRetryStatus(o.status)
         THEN {LET d == Computed(c, o, ra)
               IN  IF c.attempt >= maxAttempts
                   THEN Returned(d, o)
                   ELSE Slept(d, o, d.backoff.ms, now)
               : ra \in parseRetryAfterMs(o.ra, now)}
         ELSE {Returned(c, o)}
    ELSE {LET d == Computed(c, o, NoHint)
          IN  IF c.attempt >= maxAttempts
              THEN Thrown(d, o)
              ELSE Slept(d, o, d.backoff.ms, now)}

\* faulty variant: the last attempt sleeps as well instead of throwing
BrowserStepSleepsOn(c, o, now) ==
    IF o.status # 0 /\ BrowserValidateStatus(o.status)
    THEN Returned(c, o)
    ELSE IF ~BrowserRetryable(o) \/ c.attempt > maxAttempts
         THEN Thrown(c, o)
         ELSE LET d == Computed(c, o, browserRetryAfterMs(o.ra))
              IN  Slept(d, o, d.backoff.ms, now)

\* the body of the browser-side loop after client.get settled with outcome o
BrowserStep(c, o, now) ==
    IF o.status # 0 /\ BrowserValidateStatus(o.status)
    THEN Returned(c, o)
    ELSE IF ~BrowserRetryable(o) \/ c.attempt >= maxAttempts
         THEN Thrown(c, o)
         ELSE LET d == Computed(c, o, browserRetryAfterMs(o.ra))
              IN  Slept(d, o, d.backoff.ms, now)

(***************************************************************************)
(* Strings, and the parameters of the proxy handlers.                      *)
(***************************************************************************)
RECURSIVE TrimLeft(_)
TrimLeft(s) == IF s # <<>> /\ Head(s) = " " THEN TrimLeft(Tail(s)) ELSE s

RECURSIVE TrimRight(_)
TrimRight(s) ==
    IF s # <<>> /\ s[Len(s)] = " " THEN TrimRight(SubSeq(s, 1, Len(s) - 1)) ELSE s

\* faulty variant: nothing is trimmed
TrimNone(s) == s
Trim(s) == TrimRight(TrimLeft(s))

Digit(d) == <<SubSeq(<<"0", "1", "2", "3", "4", "5", "6", "7", "8", "9">>, d + 1, d + 1)[1]>>

RECURSIVE NatToStr(_)
NatToStr(n) == IF n < 10 THEN Digit(n) ELSE NatToStr(n \div 10) \o Digit(n % 10)

\* template-literal formatting of an integer
NumToStr(n) == IF n < 0 THEN <<"-">> \o NatToStr(-n) ELSE NatToStr(n)

\* a query-string parameter: absent, a number or other text
Absent == [kind |-> "absent", n |-> 0]
Num(n) == [kind |-> "num", n |-> n]
Text == [kind |-> "text", n |-> 0]

\* Number(p ?? dflt) || dflt
NumberOr(p, dflt) == IF p.kind = "num" /\ p.n # 0 THEN p.n ELSE dflt

ClampLimit(p) == Min(NumberOr(p, DefaultLimit), MaxLimit)
ClampOffset(p) == Max(NumberOr(p, 0), 0)

Fields == <<"title,year,venue,authors,abstract,url,openAccessPdf">>

\* faulty variant: the offset is left out of the key
SearchCacheKeyNoOffset(query, limit, offset) ==
    <<"search:">> \o query \o <<"|">> \o NumToStr(limit) \o <<"|">> \o Fields
SearchCacheKey(query, limit, offset) ==
    <<"search:">> \o query \o <<"|">> \o NumToStr(limit) \o <<"|">>
        \o NumToStr(offset) \o <<"|">> \o Fields

PaperCacheKey(paperId) == <<"paper:">> \o paperId \o <<"|">> \o Fields

Ttl(ep) == IF ep = "search" THEN SearchTtlMs ELSE PaperTtlMs

(***************************************************************************)
(* The caches: one Map per function module.                                *)
(***************************************************************************)
NoEntry == [has |-> FALSE, value |-> "", expiresAt |-> 0]
Entry(v, t) == [has |-> TRUE, value |-> v, expiresAt |-> t]

CacheGet(m, k) == IF k \in DOMAIN m THEN m[k] ELSE NoEntry
CacheSet(m, k, e) == [x \in DOMAIN m \cup {k} |-> IF x = k THEN e ELSE m[x]]

\* faulty variant: the cache is never hit
CacheHitNever(hit, now) == FALSE
\* faulty variant: an entry still served at the instant it expires
CacheHitLate(hit, now) == hit.has /\ hit.expiresAt >= now
\* hit && hit.expiresAt > now
CacheHit(hit, now) == hit.has /\ hit.expiresAt > now

\* faulty variant: only 5xx taken for an upstream error
IsUpstreamErrorLax(status) == status >= 500
\* res.status >= 400
IsUpstreamError(status) == status >= 400

(***************************************************************************)
(* Responses of the proxy handlers (jsonResponse).                         *)
(***************************************************************************)
NoResp == [status |-> 0, shape |-> "", message |-> "", upstream |-> 0, data |-> ""]

ValueResp(v) == [NoResp EXCEPT !.status = 200, !.shape = "value", !.data = v]
MessageResp(s, m) == [NoResp EXCEPT !.status = s, !.shape = "message", !.message = m]
\* data: res.data ?? null
EnvelopeResp(s, d) ==
    [status |-> s, shape |-> "envelope", message |-> "semantic scholar error",
     upstream |-> s, data |-> IF d = "undefined" THEN "null" ELSE d]

ErrorMessage(o) ==
    CASE o.code = "ECONNABORTED" -> "timeout of 15000ms exceeded"
      [] o.code = "ERR_NETWORK" -> "Network Error"
      [] OTHER -> "Request failed with status code"

(***************************************************************************)
(* The paper store handler: strings, URLs and blob names.                  *)
(***************************************************************************)
\* the existence-probe limit of resolveUniqueBlobName, and a faulty variant
\* that allows one probe more
MaxProbesLong == 999 + 1
MaxProbes == 999

IsPrefixAt(s, t, k) ==
    /\ k + Len(t) - 1 <= Len(s)
    /\ SubSeq(s, k, k + Len(t) - 1) = t

\* String.prototype.includes, endsWith
Includes(s, t) == \E k \in 1..(Len(s) + 1) : IsPrefixAt(s, t, k)
EndsWith(s, t) == Len(t) <= Len(s) /\ IsPrefixAt(s, t, Len(s) - Len(t) + 1)

\* index of the first occurrence of character c in s, 0 when there is none
IndexOf(s, c) ==
    IF \E k \in 1..Len(s) : s[k] = c
    THEN CHOOSE k \in 1..Len(s) : s[k] = c /\ \A j \in 1..(k - 1) : s[j] # c
    ELSE 0

\* s.split(c)[0] and s.split(c)[1] for a string s that contains c
SplitFirst(s, c) == SubSeq(s, 1, IndexOf(s, c) - 1)
SplitSecond(s, c) ==
    LET rest == SubSeq(s, IndexOf(s, c) + 1, Len(s))
    IN  IF IndexOf(rest, c) = 0 THEN rest
        ELSE SubSeq(rest, 1, IndexOf(rest, c) - 1)

\* the characters of the base64 alphabet that occur in the model's inputs
Base64Chars == {"A", "B", "d"}

\* Buffer.from(s, "base64"): characters outside the alphabet are skipped and
\* decoding stops at the first "=".  A buffer is written as the sequence of
\* the base64 digits it was decoded from.
RECURSIVE Base64Decode(_)
Base64Decode(s) ==
    IF s = <<>> \/ Head(s) = "=" THEN <<>>
    ELSE IF Head(s) \in Base64Chars THEN <<Head(s)>> \o Base64Decode(Tail(s))
    ELSE Base64Decode(Tail(s))

\* the text the handler decodes when the body carries pdfBase64
PdfPayload(pdfBase64) ==
    IF Includes(pdfBase64, <<",">>) THEN SplitSecond(pdfBase64, ",")
    ELSE pdfBase64

\* a URL as new URL() parses it; ok is FALSE when it does not parse
NoUrl == [ok |-> FALSE, hostname |-> <<>>, pathname |-> <<>>, search |-> <<>>]
Url(hostname, pathname, search) ==
    [ok |-> TRUE, hostname |-> hostname, pathname |-> pathname, search |-> search]

MdpiCom == <<"m", "d", "p", "i", ".", "c", "o", "m">>
SlashPdf == <<"/", "p", "d", "f">>

\* faulty variant: the host is not looked at
IsMdpiPdfUrlAnyHost(u) == u.ok /\ Includes(u.pathname, SlashPdf)
\* u.hostname.endsWith("mdpi.com") && u.pathname.includes("/pdf"), false
\* when the string is no URL
IsMdpiPdfUrl(u) ==
    /\ u.ok
    /\ EndsWith(u.hostname, MdpiCom)
    /\ Includes(u.pathname, SlashPdf)

\* faulty variant: the PDF URL is taken for the landing page
HtmlUrlSame(u) == u
\* pdfUrl.replace(/\/pdf(\?.*)?$/, ""): a final "/pdf" of the path goes, with
\* the query string.  The URLs of the model carry no fragment.
HtmlUrl(u) ==
    IF EndsWith(u.pathname, SlashPdf)
    THEN [u EXCEPT !.pathname = SubSeq(@, 1, Len(@) - Len(SlashPdf)),
                   !.search = <<>>]
    ELSE u

\* the Referer the handler sends when the body carries no paperUrl
MdpiHome == Url(<<"w", "w", "w", ".">> \o MdpiCom, <<"/">>, <<>>)

\* the Cookie header made from the Set-Cookie headers of the landing page:
\* the text before the first ";" of each, joined with "; "
CookiePair(c) == IF Includes(c, <<";">>) THEN SplitFirst(c, ";") ELSE c
RECURSIVE JoinCookies(_)
JoinCookies(cs) ==
    IF cs = <<>> THEN <<>>
    ELSE IF Len(cs) = 1 THEN CookiePair(cs[1])
    ELSE CookiePair(cs[1]) \o <<";", " ">> \o JoinCookies(Tail(cs))

\* faulty variant: every answer of the publisher is taken for the PDF
PdfValidateStatusAny(s) == s >= 200
\* axios validateStatus of every PDF and landing-page request
PdfValidateStatus(s) == s >= 200 /\ s < 400

\* `${base}${ext}` for i = 0 and `${base}(${i})${ext}` after that
Candidate(base, i, ext) ==
    IF i = 0 THEN base \o ext
    ELSE base \o <<"(">> \o NatToStr(i) \o <<")">> \o ext

PdfExt == <<".pdf">>
JsonExt == <<".json">>

\* pdfBlobName.replace(/\.pdf$/i, ".json")
JsonNameOf(pdfBlobName) ==
    IF EndsWith(pdfBlobName, PdfExt)
    THEN SubSeq(pdfBlobName, 1, Len(pdfBlobName) - 1) \o JsonExt
    ELSE pdfBlobName

\* buildBaseName of a body without year and authors whose title needs no
\* sanitizing: `noyear_noauthor_${title}`
BuildBaseName(body) == <<"noyear", "_", "noauthor", "_">> \o body.title

(***************************************************************************)
(* The paper store handler: container, request bodies, invocations.        *)
(***************************************************************************)
\* the blob container: the blobs that were there before the first invocation,
\* given as the indices of the candidate names of one base that are taken,
\* and the blobs written since, a map from name to content
Blob(by, kind, data) == [by |-> by, kind |-> kind, data |-> data]
OldBlob == Blob(0, "pdf", <<>>)
HoldingAt(base, I) ==
    [old |-> [base |-> base, ids |-> I], new |-> [n \in {} |-> OldBlob]]
Holding(base, k) == HoldingAt(base, 0..(k - 1))
EmptyContainer == HoldingAt(<<>>, {})
IsOld(old, name) == \E i \in old.ids : name = Candidate(old.base, i, PdfExt)
Exists(container, name) ==
    name \in DOMAIN container.new \/ IsOld(container.old, name)
BlobAt(container, name) ==
    IF name \in DOMAIN container.new THEN container.new[name] ELSE OldBlob
\* uploadData replaces a blob of the same name; the faulty variant loses the
\* write
UploadLost(container, name, blob) == container
Upload(container, name, blob) ==
    [container EXCEPT !.new = [n \in DOMAIN @ \cup {name} |->
                                  IF n = name THEN blob ELSE @[n]]]

\* pdfUrl and paperUrl of a body: absent, a string that is no URL, or a URL
Given(u) == [given |-> TRUE] @@ u
NotGiven == [given |-> FALSE] @@ NoUrl

\* the JSON body of a store request; parsed is FALSE when req.json() fails
Body(paperId, title, pdfUrl, pdfBase64) ==
    [parsed |-> TRUE, paperId |-> paperId, title |-> title, pdfUrl |-> pdfUrl,
     pdfBase64 |-> pdfBase64, paperUrl |-> NotGiven]
NoBody == [Body(<<>>, <<>>, NotGiven, <<>>) EXCEPT !.parsed = FALSE]

\* !body?.paperId || !body?.title || (!body?.pdfUrl && !body?.pdfBase64);
\* the faulty variant rejects only a body that lacks all of them
MissingFieldsAll(body) ==
    /\ body.paperId = <<>>
    /\ body.title = <<>>
    /\ (~body.pdfUrl.given /\ body.pdfBase64 = <<>>)
MissingFields(body) ==
    \/ body.paperId = <<>>
    \/ body.title = <<>>
    \/ (~body.pdfUrl.given /\ body.pdfBase64 = <<>>)

\* an HTTP request of the PDF acquisition, and what comes back
HttpRequest(kind, url, referer, cookie) ==
    [kind |-> kind, url |-> url, referer |-> referer, cookie |-> cookie]
HttpOutcome(status, data, cookies) ==
    [status |-> status, data |-> data, cookies |-> cookies]

\* !connectionString of the environment; the faulty variant never misses it
CredentialMissingNever(cred) == FALSE
CredentialMissing(cred) == ~cred

NoStoreResp == [status |-> 0, shape |-> "", step |-> "",
                pdfBlobName |-> <<>>, jsonBlobName |-> <<>>]

\* one invocation of storePaper: its position, its locals, and a record of
\* the HTTP requests it sent, the statuses that came back, and the storage
\* calls, existence probes and uploads it made
NoStore == [pc |-> "idle", variant |-> "", step |-> "start", cred |-> FALSE,
            body |-> NoBody, base |-> <<>>, i |-> 0, candidate |-> <<>>,
            pdfBlobName |-> <<>>, jsonBlobName |-> <<>>, pdfBytes |-> <<>>,
            inline |-> FALSE, htmlUrl |-> NoUrl, cookie |-> <<>>, http |-> <<>>,
            got |-> <<>>, setCookie |-> <<>>, failedAt |-> "",
            storage |-> 0, probes |-> 0, wrote |-> <<>>, resp |-> NoStoreResp]

\* the handler returns: 400 and the configuration 500 from the try block,
\* every other failure from the catch block, all with the current step
StoreReturn(v, status, shape) ==
    [v EXCEPT !.pc = "done",
              !.resp = [NoStoreResp EXCEPT !.status = status, !.shape = shape,
                                           !.step = v.step]]
\* faulty variant: the catch block answers without the step
StoreThrowNoStep(v) ==
    [StoreReturn(v, 500, "error") EXCEPT !.failedAt = v.pc, !.resp.step = ""]
\* failedAt keeps the position at which the exception was raised
StoreThrow(v) == [StoreReturn(v, 500, "error") EXCEPT !.failedAt = v.pc]

\* the downloadPdf action of the paper detail view: its position, the paper
\* shown, what it posts to the store function, and what it did
NoView == [pc |-> "idle", variant |-> "", paper |-> NoBody, pdfBase64 |-> <<>>,
           warned |-> FALSE, logged |-> FALSE, opened |-> 0]

\* what a handler read from its request and made of it: the raw name (query or
\* paperId) and paging parameters, and the limit and offset it computed
NoInput == [raw |-> <<>>, rawLimit |-> Absent, rawOffset |-> Absent,
            limit |-> 0, offset |-> 0]

NoReq == [pc |-> "idle", ep |-> "", in |-> NoInput, name |-> <<>>, key |-> <<>>,
          now |-> 0, hit |-> NoEntry, after |-> {}, stored |-> FALSE,
          resp |-> NoResp]

Init ==
    /\ clock = 0
    /\ cache = [ep \in {"search", "paper"} |-> <<>>]
    /\ req = [r \in Slots |-> NoReq]
    /\ call = [r \in Slots |-> NoCall]
    /\ blobs = EmptyContainer
    /\ st = [s \in Stores |-> NoStore]
    /\ view = NoView

(***************************************************************************)
(* Actions.                                                                *)
(***************************************************************************)
Tick(d) ==
    /\ clock + d <= MaxClock
    /\ \A r \in Slots :
          /\ call[r].pc = "fetching" =>
                clock + d <= call[r].sentAt + TimeoutMs(call[r].side)
          \* a handler goes on as soon as its call has settled
          /\ req[r].pc = "awaiting" =>
                call[r].pc \notin {"returned", "thrown", "loopexit"}
    /\ clock' = clock + d
    /\ UNCHANGED <<cache, req, call, blobs, st, view>>

\* the synchronous head of a proxy handler, up to its first await
Handle(r, ep, in, name, key) ==
    LET now == clock
        hit == CacheGet(cache[ep], key)
        base == [NoReq EXCEPT !.ep = ep, !.in = in, !.name = name,
                              !.after = {q \in Reqs : req[q].pc = "done"}]
    IN  IF name = <<>>
        THEN /\ req' = [req EXCEPT ![r] =
                   [base EXCEPT !.pc = "done",
                        !.resp = MessageResp(400,
                            IF ep = "search" THEN "query is required"
                                             ELSE "paperId is required")]]
             /\ UNCHANGED <<clock, cache, call, blobs, st, view>>
        ELSE IF CacheHit(hit, now)
        THEN /\ req' = [req EXCEPT ![r] =
                   [base EXCEPT !.pc = "done", !.key = key, !.now = now,
                                !.hit = hit, !.resp = ValueResp(hit.value)]]
             /\ UNCHANGED <<clock, cache, call, blobs, st, view>>
        ELSE /\ req' = [req EXCEPT ![r] =
                   [base EXCEPT !.pc = "awaiting", !.key = key, !.now = now,
                                !.hit = hit]]
             /\ call' = [call EXCEPT ![r] = StartCall(ep, now)]
             /\ UNCHANGED <<clock, cache, blobs, st, view>>

\* GET /api/ss/search?query=..&limit=..&offset=..
SearchRequest(r, rawQuery, rawLimit, rawOffset) ==
    /\ req[r].pc = "idle"
    /\ call[r].pc = "none"
    /\ LET query == Trim(rawQuery)
           limit == ClampLimit(rawLimit)
           offset == ClampOffset(rawOffset)
       IN  Handle(r, "search",
                  [raw |-> rawQuery, rawLimit |-> rawLimit,
                   rawOffset |-> rawOffset, limit |-> limit, offset |-> offset],
                  query, SearchCacheKey(query, limit, offset))

\* GET /api/ss/paper/{paperId}
PaperRequest(r, rawId) ==
    /\ req[r].pc = "idle"
    /\ call[r].pc = "none"
    /\ LET paperId == Trim(rawId)
       IN  Handle(r, "paper", [NoInput EXCEPT !.raw = rawId],
                  paperId, PaperCacheKey(paperId))

\* a getWithRetry call made on its own (the browser side calls the proxy)
Invoke(r, side) ==
    /\ req[r].pc = "idle"
    /\ call[r].pc = "none"
    /\ call' = [call EXCEPT ![r] = StartCall(side, clock)]
    /\ UNCHANGED <<clock, cache, req, blobs, st, view>>

\* the pending axios.get of a proxy-side call settles
ProxyAttempt(r, o) ==
    /\ call[r].pc = "fetching"
    /\ call[r].side \in {"search", "paper"}
    /\ \E c \in ProxyStep(call[r], o, clock) : call' = [call EXCEPT ![r] = c]
    /\ UNCHANGED <<clock, cache, req, blobs, st, view>>

\* the pending client.get of a browser-side call settles
BrowserAttempt(r, o) ==
    /\ call[r].pc = "fetching"
    /\ call[r].side = "browser"
    /\ call' = [call EXCEPT ![r] = BrowserStep(call[r], o, clock)]
    /\ UNCHANGED <<clock, cache, req, blobs, st, view>>

\* the k-th request of the browser-side call reaches the search function,
\* before the browser sends its next one (at least 500 ms later)
SearchArrives(b, k, rawQuery) ==
    /\ call[b].side = "browser"
    /\ k = call[b].attempt
    /\ SearchRequest(k, rawQuery, Absent, Absent)

\* the k-th request of the browser-side call reaches the paper function
PaperArrives(b, k, rawId) ==
    /\ call[b].side = "browser"
    /\ k = call[b].attempt
    /\ PaperRequest(k, rawId)

\* the pending client.get receives the answer of the invocation serving it:
\* jsonResponse sets the status and a JSON body and no Retry-After header
BrowserHears(b, k) ==
    /\ k = call[b].attempt
    /\ req[k].pc = "done"
    /\ BrowserAttempt(b, [status |-> req[k].resp.status, code |-> "",
                          ra |-> NoHeader, data |-> req[k].resp.data])

\* sleep(backoff) is over: the loop tests its guard and sends the next request
Wake(r) ==
    /\ call[r].pc = "sleeping"
    /\ clock >= call[r].wakeAt
    /\ call' = [call EXCEPT ![r] =
          IF call[r].attempt < maxAttempts
          THEN [@ EXCEPT !.pc = "fetching", !.attempt = @ + 1, !.wakeAt = 0,
                         !.sentAt = clock]
          ELSE [@ EXCEPT !.pc = "loopexit", !.wakeAt = 0]]
    /\ UNCHANGED <<clock, cache, req, blobs, st, view>>

\* the rest of a proxy handler once its getWithRetry call has settled
Finish(r) ==
    /\ req[r].pc = "awaiting"
    /\ call[r].pc \in {"returned", "thrown", "loopexit"}
    /\ LET res == call[r].res
           ep == req[r].ep
       IN  IF call[r].pc = "loopexit"
           THEN /\ req' = [req EXCEPT ![r].pc = "done",
                       ![r].resp = MessageResp(500, "unexpected retry loop exit")]
                /\ UNCHANGED cache
           ELSE IF call[r].pc = "thrown"
           THEN /\ req' = [req EXCEPT ![r].pc = "done",
                       ![r].resp = MessageResp(500, ErrorMessage(res))]
                /\ UNCHANGED cache
           ELSE IF IsUpstreamError(res.status)
           THEN /\ req' = [req EXCEPT ![r].pc = "done",
                       ![r].resp = EnvelopeResp(res.status, res.data)]
                /\ UNCHANGED cache
           ELSE /\ cache' = [cache EXCEPT ![ep] =
                       CacheSet(@, req[r].key,
                                Entry(res.data, req[r].now + Ttl(ep)))]
                /\ req' = [req EXCEPT ![r].pc = "done", ![r].stored = TRUE,
                       ![r].resp = ValueResp(res.data)]
    /\ UNCHANGED <<clock, call, blobs, st, view>>

(***************************************************************************)
(* Actions of the paper store handler.  "fallback" is the handler with     *)
(* downloadPdfWithFallback, "direct" the one with a single axios.get.      *)
(***************************************************************************)
\* the first GET of the PDF goes out
SendDirect(v) ==
    LET referer == IF v.variant = "fallback" /\ v.body.paperUrl.given
                   THEN v.body.paperUrl ELSE Given(MdpiHome)
    IN  [v EXCEPT !.pc = "direct",
                  !.http = Append(@, HttpRequest("pdf", v.body.pdfUrl, referer, <<>>))]

\* faulty variant: the PDF is fetched although the body carries it
FetchInline(v) == SendDirect(v)
\* the body carries PDF bytes: they are decoded, nothing is fetched
DecodeInline(v) ==
    [v EXCEPT !.pdfBytes = Base64Decode(PdfPayload(v.body.pdfBase64)),
              !.inline = TRUE, !.step = "upload_pdf", !.pc = "upload_pdf"]

\* the handler up to its first storage call
StoreRequest(s, variant, cred, body) ==
    /\ st[s].pc = "idle"
    /\ LET v0 == [NoStore EXCEPT !.variant = variant, !.cred = cred,
                                 !.body = body, !.step = "read_body"]
           v1 == [v0 EXCEPT !.step = "create_blob_client"]
       IN  st' = [st EXCEPT ![s] =
              IF ~body.parsed THEN StoreThrow(v0)
              ELSE IF MissingFields(body) THEN StoreReturn(v0, 400, "validation")
              ELSE IF CredentialMissing(cred) THEN StoreReturn(v1, 500, "config")
              ELSE [v1 EXCEPT !.step = "create_container_if_not_exists",
                              !.pc = "create_container"]]
    /\ UNCHANGED <<clock, cache, req, call, blobs, view>>

\* containerClient.createIfNotExists() settles; resolveUniqueBlobName starts
CreateContainer(s, ok) ==
    /\ st[s].pc = "create_container"
    /\ LET v == [st[s] EXCEPT !.storage = @ + 1]
           base == BuildBaseName(v.body)
       IN  st' = [st EXCEPT ![s] =
              IF ~ok THEN StoreThrow(v)
              ELSE [v EXCEPT !.step = "build_blob_names", !.base = base,
                             !.i = 0, !.candidate = Candidate(base, 0, PdfExt),
                             !.pc = "probe"]]
    /\ UNCHANGED <<clock, cache, req, call, blobs, view>>

\* blobClient.exists() of the current candidate settles
Probe(s, ok) ==
    /\ st[s].pc = "probe"
    /\ LET v == [st[s] EXCEPT !.storage = @ + 1, !.probes = @ + 1]
           named == [v EXCEPT !.pdfBlobName = v.candidate,
                              !.jsonBlobName = JsonNameOf(v.candidate),
                              !.step = "download_pdf"]
           next == [v EXCEPT !.i = @ + 1,
                             !.candidate = Candidate(v.base, v.i + 1, PdfExt)]
       IN  st' = [st EXCEPT ![s] =
              IF ~ok THEN StoreThrow(v)
              ELSE IF ~Exists(blobs, v.candidate)
              THEN IF v.body.pdfBase64 # <<>> THEN DecodeInline(named)
                   ELSE SendDirect(named)
              ELSE IF next.i < MaxProbes THEN next
              ELSE StoreThrow(next)]
    /\ UNCHANGED <<clock, cache, req, call, blobs, view>>

\* the first GET of the PDF settles
DirectFetch(s, o) ==
    /\ st[s].pc = "direct"
    /\ LET v == [st[s] EXCEPT !.got = Append(@, o.status)]
           htmlUrl == HtmlUrl(v.body.pdfUrl)
       IN  st' = [st EXCEPT ![s] =
              IF PdfValidateStatus(o.status)
              THEN [v EXCEPT !.pdfBytes = o.data, !.step = "upload_pdf",
                             !.pc = "upload_pdf"]
              ELSE IF /\ v.variant = "fallback"
                      /\ o.status = 403
                      /\ IsMdpiPdfUrl(v.body.pdfUrl)
              THEN [v EXCEPT !.htmlUrl = htmlUrl, !.pc = "landing",
                             !.http = Append(@, HttpRequest("html", Given(htmlUrl),
                                                            Given(MdpiHome), <<>>))]
              ELSE StoreThrow(v)]
    /\ UNCHANGED <<clock, cache, req, call, blobs, view>>

\* the GET of the landing page settles; the PDF is asked for again
Landing(s, o) ==
    /\ st[s].pc = "landing"
    /\ LET v == [st[s] EXCEPT !.got = Append(@, o.status)]
           cookie == JoinCookies(o.cookies)
       IN  st' = [st EXCEPT ![s] =
              IF PdfValidateStatus(o.status)
              THEN [v EXCEPT !.cookie = cookie, !.setCookie = o.cookies,
                             !.pc = "retry",
                             !.http = Append(@, HttpRequest("pdf", v.body.pdfUrl,
                                                            Given(v.htmlUrl), cookie))]
              ELSE StoreThrow(v)]
    /\ UNCHANGED <<clock, cache, req, call, blobs, view>>

\* the second GET of the PDF settles
Retry(s, o) ==
    /\ st[s].pc = "retry"
    /\ LET v == [st[s] EXCEPT !.got = Append(@, o.status)]
       IN  st' = [st EXCEPT ![s] =
              IF PdfValidateStatus(o.status)
              THEN [v EXCEPT !.pdfBytes = o.data, !.step = "upload_pdf",
                             !.pc = "upload_pdf"]
              ELSE StoreThrow(v)]
    /\ UNCHANGED <<clock, cache, req, call, blobs, view>>

\* uploadData of the PDF blob settles
UploadPdf(s, ok) ==
    /\ st[s].pc = "upload_pdf"
    /\ LET v == [st[s] EXCEPT !.storage = @ + 1]
           name == v.pdfBlobName
       IN  IF ~ok
           THEN /\ st' = [st EXCEPT ![s] = StoreThrow(v)]
                /\ UNCHANGED blobs
           ELSE /\ blobs' = Upload(blobs, name, Blob(s, "pdf", v.pdfBytes))
                /\ st' = [st EXCEPT ![s] =
                      [v EXCEPT !.step = "upload_json", !.pc = "upload_json",
                                !.wrote = Append(@, [name |-> name,
                                                     onto |-> Exists(blobs, name)])]]
    /\ UNCHANGED <<clock, cache, req, call, view>>

\* uploadData of the JSON blob settles
UploadJson(s, ok) ==
    /\ st[s].pc = "upload_json"
    /\ LET v == [st[s] EXCEPT !.storage = @ + 1]
           name == v.jsonBlobName
       IN  IF ~ok
           THEN /\ st' = [st EXCEPT ![s] = StoreThrow(v)]
                /\ UNCHANGED blobs
           ELSE /\ blobs' = Upload(blobs, name, Blob(s, "json", v.pdfBlobName))
                /\ st' = [st EXCEPT ![s] =
                      [StoreReturn([v EXCEPT !.step = "done"], 200, "stored")
                          EXCEPT !.resp.pdfBlobName = v.pdfBlobName,
                                 !.resp.jsonBlobName = v.jsonBlobName,
                                 !.wrote = Append(@, [name |-> name,
                                                      onto |-> Exists(blobs, name)])]]
    /\ UNCHANGED <<clock, cache, req, call, view>>

(***************************************************************************)
(* The downloadPdf action of the paper detail view.  "inner" is the view   *)
(* that swallows a failed PDF fetch and stores all the same, "joint" the   *)
(* one that gives up storing on it, "plain" the one that does not fetch.   *)
(***************************************************************************)
\* result.slice(result.indexOf(",") + 1) of a data URL
DataUrlPayload(result) ==
    IF IndexOf(result, ",") = 0 THEN result
    ELSE SubSeq(result, IndexOf(result, ",") + 1, Len(result))

\* the payload the view posts to /api/store-paper
PostedBody(v) == [v.paper EXCEPT !.pdfBase64 = v.pdfBase64]

\* window.open(url): the rest of downloadPdf after its try block
OpenPdf(v) == [v EXCEPT !.opened = @ + 1, !.pc = "done"]
\* faulty variant: a failure of the try block leaves the function
CatchStoreRethrows(v) == [v EXCEPT !.pc = "done"]
\* the catch block: the failure is logged and the function goes on
CatchStore(v) == OpenPdf([v EXCEPT !.logged = TRUE])

\* the user clicks the download button
ViewClick(variant, paper) ==
    /\ view.pc = "idle"
    /\ view' = [NoView EXCEPT
          !.variant = variant, !.paper = paper,
          !.pc = IF ~paper.pdfUrl.given THEN "done"
                 ELSE IF variant = "plain" THEN "storing"
                 ELSE "fetching"]
    /\ UNCHANGED <<clock, cache, req, call, blobs, st>>

\* the browser's fetch of the PDF and its conversion to base64 settle
ViewFetchSettles(ok, payload) ==
    /\ view.pc = "fetching"
    /\ LET dataUrl == <<"d", ":", ",">> \o payload
       IN  view' =
              IF ok
              THEN [view EXCEPT !.pc = "storing",
                       !.pdfBase64 = IF view.variant = "inner" THEN dataUrl
                                     ELSE DataUrlPayload(dataUrl)]
              ELSE IF view.variant = "inner"
              THEN [view EXCEPT !.pc = "storing", !.warned = TRUE]
              ELSE CatchStore(view)
    /\ UNCHANGED <<clock, cache, req, call, blobs, st>>

\* the POST of the view reaches the store function
ViewStoreArrives(variant, cred) ==
    /\ view.pc = "storing"
    /\ StoreRequest(1, variant, cred, PostedBody(view))

\* storeToAzureBlob settles: with the answer of the function, resolved on
\* 2xx and rejected otherwise, or rejected without one (timeout, network)
ViewStoreSettles(answered) ==
    /\ view.pc = "storing"
    /\ answered => st[1].pc = "done"
    /\ view' = IF answered /\ st[1].resp.status >= 200 /\ st[1].resp.status < 300
               THEN OpenPdf(view)
               ELSE CatchStore(view)
    /\ UNCHANGED <<clock, cache, req, call, blobs, st>>

(***************************************************************************)
(* Inputs of the requests.                                                 *)
(***************************************************************************)
RawNames == {<<>>, <<" ">>, <<"a", " ">>}
RawLimits == {Absent}
RawOffsets == {Absent}

\* the two proxy functions under concurrent requests
Next ==
    \/ \E d \in TickSteps : Tick(d)
    \/ \E r \in Reqs, q \in RawNames, l \in RawLimits, f \in RawOffsets :
          SearchRequest(r, q, l, f)
    \/ \E r \in Reqs, q \in RawNames : PaperRequest(r, q)
    \/ \E r \in Reqs, o \in CoreOutcomes : ProxyAttempt(r, o)
    \/ \E r \in Reqs : Wake(r)
    \/ \E r \in Reqs : Finish(r)

Spec == Init /\ [][Next]_vars

\* one getWithRetry call of either side under every upstream outcome
NextRetry ==
    \/ \E d \in TickSteps : Tick(d)
    \/ \E side \in {"search", "paper", "browser"} : Invoke(1, side)
    \/ \E o \in Outcomes(clock) : ProxyAttempt(1, o)
    \/ \E o \in Outcomes(clock) : BrowserAttempt(1, o)
    \/ Wake(1)

SpecRetry == Init /\ [][NextRetry]_vars

\* one getWithRetry call whose upstream calls all settle and whose timers
\* all fire.  How long an upstream call takes does not matter here, so time
\* moves only to end a sleep: the horizon then has room for every sleep of
\* the call.
EndSleep(r, d) ==
    /\ call[r].pc = "sleeping"
    /\ clock < call[r].wakeAt
    /\ Tick(d)
NextRetryLive ==
    \/ \E d \in TickSteps : EndSleep(1, d)
    \/ \E side \in {"search", "paper", "browser"} : Invoke(1, side)
    \/ \E o \in Outcomes(clock) : ProxyAttempt(1, o)
    \/ \E o \in Outcomes(clock) : BrowserAttempt(1, o)
    \/ Wake(1)

SpecRetryLive ==
    /\ Init
    /\ [][NextRetryLive]_vars
    /\ WF_vars(\E d \in TickSteps : EndSleep(1, d))
    /\ WF_vars(\E o \in Outcomes(clock) : ProxyAttempt(1, o))
    /\ WF_vars(\E o \in Outcomes(clock) : BrowserAttempt(1, o))
    /\ WF_vars(Wake(1))

\* one searchPapers or getPaper call of the browser, the proxy invocations
\* serving its requests, and the upstream answers these get.  A request of
\* the browser may fail in transport (timeout, network error) whether or
\* not it reached the proxy, and an invocation goes on when it does; at most
\* MaxRunning invocations are in progress at a time.
ChainOutcomes ==
    {[status |-> 200, code |-> "", ra |-> NoHeader, data |-> "d1"],
     [status |-> 429, code |-> "", ra |-> DateHeader(0), data |-> "e1"]}

NextChain ==
    \/ \E d \in TickSteps : EndSleep(Browser, d)
    \/ Invoke(Browser, "browser")
    \/ \E k \in Hops :
          /\ Cardinality({j \in Hops : req[j].pc = "awaiting"}) < MaxRunning
          /\ \A j \in Hops : req[j].ep # "paper"
          /\ SearchArrives(Browser, k, <<"a">>)
    \/ \E k \in Hops :
          /\ Cardinality({j \in Hops : req[j].pc = "awaiting"}) < MaxRunning
          /\ \A j \in Hops : req[j].ep # "search"
          /\ PaperArrives(Browser, k, <<"a">>)
    \/ \E k \in Hops, o \in ChainOutcomes : ProxyAttempt(k, o)
    \/ \E k \in Hops : Wake(k)
    \/ \E k \in Hops : Finish(k)
    \/ \E k \in Hops : BrowserHears(Browser, k)
    \/ \E o \in {x \in FailOutcomes : x.code = "ECONNABORTED"} :
          BrowserAttempt(Browser, o)
    \/ Wake(Browser)

SpecChain == Init /\ [][NextChain]_vars

\* the two proxy handlers up to their upstream call, over queries with
\* blanks and "|" and over paging parameters of every kind
ParamNames == {<<"a">>, <<" ", "a">>, <<"a", "|", "1">>}
ParamLimits == {Absent, Text, Num(-1), Num(0), Num(1), Num(100), Num(101)}
ParamOffsets == {Absent, Text, Num(-1), Num(0), Num(1)}

NextParams ==
    \/ \E r \in Reqs, q \in ParamNames, l \in ParamLimits, f \in ParamOffsets :
          SearchRequest(r, q, l, f)
    \/ \E r \in Reqs, q \in ParamNames : PaperRequest(r, q)

SpecParams == Init /\ [][NextParams]_vars


(***************************************************************************)
(* Inputs of the store handler.                                            *)
(***************************************************************************)
WwwMdpiCom == <<"w", "w", "w", ".">> \o MdpiCom
PaperPath == <<"/", "1">>

\* publisher PDF links and links that differ from them in host or path
PdfUrls ==
    {Url(WwwMdpiCom, PaperPath \o SlashPdf, <<"?", "v">>),
     Url(WwwMdpiCom, PaperPath, <<>>),
     Url(WwwMdpiCom, SlashPdf \o PaperPath, <<>>),
     Url(<<"x">> \o MdpiCom, PaperPath \o SlashPdf, <<>>),
     Url(MdpiCom \o <<".", "o">>, PaperPath \o SlashPdf, <<>>),
     Url(<<"a", ".", "o">>, PaperPath \o SlashPdf, <<>>)}
BodyUrls == {NotGiven, Given(NoUrl)} \cup {Given(u) : u \in PdfUrls}

\* pdfBase64: none, bare base64, data URLs (with blank and padding), and a
\* value with two commas, which is no data URL
DataPrefix == <<"d", ":">>
Base64Values ==
    {<<>>, <<"A", "B">>, DataPrefix \o <<",", "A", "B">>,
     DataPrefix \o <<",", "A", " ", "B", "=", "A">>,
     DataPrefix \o <<",", "A", ",", "B">>}

Ids == {<<>>, <<"p">>}
Titles == {<<>>, <<"T">>}
StoreBodies ==
    {NoBody} \cup {Body(id, title, u, b) :
                      id \in Ids, title \in Titles, u \in BodyUrls, b \in Base64Values}
StoreVariants == {"fallback", "direct"}

\* what a GET can come back with; status 0 is an error without a response
PdfData == <<"P">>
PdfOutcomes == {HttpOutcome(n, PdfData, <<>>) : n \in {200, 304, 403, 404, 500, 0}}
SetCookies == {<<>>, << <<"k", "=", "1", ";", "x">> >>,
               << <<"k", "=", "1", ";", "x">>, <<"j", "=", "2">> >>}
LandingOutcomes ==
    {HttpOutcome(200, <<>>, cs) : cs \in SetCookies}
        \cup {HttpOutcome(n, <<>>, <<>>) : n \in {403, 0}}

BaseT == BuildBaseName(Body(<<"p">>, <<"T">>, NotGiven, <<"A", "B">>))
SmallContainers == {EmptyContainer, Holding(BaseT, 2), HoldingAt(BaseT, {0, 2})}
FullContainers == {Holding(BaseT, k) : k \in (MaxProbes - 1)..(MaxProbes + 1)}

InitWith(containers) ==
    /\ clock = 0
    /\ cache = [ep \in {"search", "paper"} |-> <<>>]
    /\ req = [r \in Slots |-> NoReq]
    /\ call = [r \in Slots |-> NoCall]
    /\ blobs \in containers
    /\ st = [s \in Stores |-> NoStore]
    /\ view = NoView

\* one store invocation over every body, with and without the credential
NextStoreOne ==
    \/ \E variant \in StoreVariants, cred \in BOOLEAN, body \in StoreBodies :
          StoreRequest(1, variant, cred, body)
    \/ \E ok \in BOOLEAN : CreateContainer(1, ok)
    \/ \E ok \in BOOLEAN : Probe(1, ok)
    \/ \E o \in PdfOutcomes : DirectFetch(1, o)
    \/ \E o \in LandingOutcomes : Landing(1, o)
    \/ \E o \in PdfOutcomes : Retry(1, o)
    \/ \E ok \in BOOLEAN : UploadPdf(1, ok)
    \/ \E ok \in BOOLEAN : UploadJson(1, ok)

SpecStoreOne == InitWith(SmallContainers) /\ [][NextStoreOne]_vars

\* one store invocation whose base name is taken zero to a thousand times
InlineBodies == {Body(<<"p">>, title, NotGiven, <<"A", "B">>) : title \in {<<"T">>, <<"U">>}}

NextResolve ==
    \/ \E variant \in StoreVariants, body \in InlineBodies :
          StoreRequest(1, variant, TRUE, body)
    \/ \E ok \in BOOLEAN : CreateContainer(1, ok)
    \/ \E ok \in BOOLEAN : Probe(1, ok)
    \/ \E ok \in BOOLEAN : UploadPdf(1, ok)
    \/ \E ok \in BOOLEAN : UploadJson(1, ok)

SpecResolve == InitWith(SmallContainers \cup FullContainers) /\ [][NextResolve]_vars

\* concurrent store invocations, each with the PDF in its body
NextStore ==
    \/ \E s \in Stores, variant \in StoreVariants, body \in InlineBodies :
          StoreRequest(s, variant, TRUE, body)
    \/ \E s \in Stores, ok \in BOOLEAN : CreateContainer(s, ok)
    \/ \E s \in Stores, ok \in BOOLEAN : Probe(s, ok)
    \/ \E s \in Stores, ok \in BOOLEAN : UploadPdf(s, ok)
    \/ \E s \in Stores, ok \in BOOLEAN : UploadJson(s, ok)

SpecStore == InitWith({EmptyContainer, Holding(BaseT, 1)}) /\ [][NextStore]_vars

\* the downloadPdf action of the three views, with the store function
ViewVariants == {"inner", "joint", "plain"}
ViewUrls == {NotGiven, Given(Url(WwwMdpiCom, PaperPath \o SlashPdf, <<>>)),
             Given(Url(<<"a", ".", "o">>, PaperPath \o SlashPdf, <<>>))}
ViewPapers == {Body(<<"p">>, title, u, <<>>) : title \in Titles, u \in ViewUrls}

NextView ==
    \/ \E variant \in ViewVariants, paper \in ViewPapers : ViewClick(variant, paper)
    \/ \E ok \in BOOLEAN : ViewFetchSettles(ok, <<"A", "B">>)
    \/ \E variant \in StoreVariants, cred \in BOOLEAN : ViewStoreArrives(variant, cred)
    \/ \E ok \in BOOLEAN : CreateContainer(1, ok)
    \/ \E ok \in BOOLEAN : Probe(1, ok)
    \/ \E o \in PdfOutcomes : DirectFetch(1, o)
    \/ \E o \in LandingOutcomes : Landing(1, o)
    \/ \E o \in PdfOutcomes : Retry(1, o)
    \/ \E ok \in BOOLEAN : UploadPdf(1, ok)
    \/ \E ok \in BOOLEAN : UploadJson(1, ok)
    \/ \E answered \in BOOLEAN : ViewStoreSettles(answered)

SpecView == InitWith(SmallContainers) /\ [][NextView]_vars

\* the browser's fetch settles, and the store call settles within the 60 s
\* timeout of its axios instance
SpecViewLive ==
    /\ SpecView
    /\ WF_vars(\E ok \in BOOLEAN : ViewFetchSettles(ok, <<"A", "B">>))
    /\ WF_vars(\E answered \in BOOLEAN : ViewStoreSettles(answered))

(***************************************************************************)
(* Properties.                                                             *)
(***************************************************************************)
Started == {r \in Reqs : call[r].pc # "none"}
Settled(r) == call[r].pc \in {"returned", "thrown"}
ProxySide(r) == call[r].side \in {"search", "paper"}

IsSuccess(s) == s >= 200 /\ s < 300
AllStatusIn(h, n, S) == \A i \in 1..n : h[i].status \in S

\* C1: one getWithRetry call, proxy side or browser side, sends at most 4
\* upstream requests (1 initial + 3 retries), whatever the outcomes are.
C1_AtMostFourAttempts ==
    \A r \in Reqs :
        /\ call[r].attempt <= 4
        /\ Len(call[r].hist) <= 4
        /\ call[r].sleeps <= 3

C1_Witness ==
    \E r \in Reqs : Len(call[r].hist) = 4 /\ call[r].attempt = 4

\* C2: while the first k <= 3 attempts all ended in 429 the call goes on,
\* having slept exactly once per 429; when the attempt after k 429s succeeds
\* the call returns that response after exactly k sleeps.
C2_RetryOn429ThenSuccess ==
    \A r \in Started :
        LET h == call[r].hist
            k == Len(h)
        IN  /\ (k \in 1..3 /\ AllStatusIn(h, k, {429})) =>
                  /\ call[r].sleeps = k
                  /\ \/ call[r].pc = "sleeping" /\ call[r].attempt = k
                     \/ call[r].pc = "fetching" /\ call[r].attempt = k + 1
            /\ (k >= 1 /\ AllStatusIn(h, k - 1, {429}) /\ IsSuccess(h[k].status)) =>
                  /\ call[r].pc = "returned"
                  /\ call[r].res.status = h[k].status
                  /\ call[r].sleeps = k - 1
                  /\ call[r].attempt = k

C2_Witness ==
    \E r \in Started :
        /\ Len(call[r].hist) = 4
        /\ AllStatusIn(call[r].hist, 3, {429})
        /\ call[r].hist[4].status = 200
        /\ call[r].pc = "returned"
        /\ call[r].sleeps = 3

NonRetry4xx(s) == s >= 400 /\ s < 500 /\ s # 429

\* C3: a 4xx answer other than 429 ends the call at once: it is the last
\* outcome, nothing is slept after it, and as the first answer it makes the
\* call one upstream request with no delay (returned by the proxy side,
\* raised by the browser side).
C3_No4xxRetry ==
    \A r \in Started :
        \A i \in 1..Len(call[r].hist) :
            NonRetry4xx(call[r].hist[i].status) =>
                /\ i = Len(call[r].hist)
                /\ call[r].attempt = i
                /\ call[r].sleeps = i - 1
                /\ call[r].res.status = call[r].hist[i].status
                /\ call[r].pc = IF ProxySide(r) THEN "returned" ELSE "thrown"

C3_Witness ==
    \E r \in Started :
        /\ ProxySide(r)
        /\ Len(call[r].hist) = 1
        /\ call[r].hist[1].status = 404
        /\ call[r].pc = "returned"
        /\ call[r].attempt = 1
        /\ call[r].sleeps = 0

NonRetry5xx(s) == s >= 500 /\ s < 600 /\ s # 503

\* C4: a 5xx answer other than 503 ends the call at once on both sides:
\* it is the last outcome and no delay follows it.
C4_No5xxRetry ==
    \A r \in Started :
        \A i \in 1..Len(call[r].hist) :
            NonRetry5xx(call[r].hist[i].status) =>
                /\ i = Len(call[r].hist)
                /\ call[r].sleeps = i - 1
                /\ Settled(r)

\* C5: a proxy-side call whose 4 attempts all ended in 429 or 503 returns
\* the last response; one whose 4 attempts all failed without a response
\* raises the last error.
C5_ExhaustedShape ==
    \A r \in Started :
        (ProxySide(r) /\ Len(call[r].hist) = 4) =>
            /\ AllStatusIn(call[r].hist, 4, {429, 503}) =>
                  call[r].pc = "returned" /\ call[r].res.status = call[r].hist[4].status
            /\ AllStatusIn(call[r].hist, 4, {0}) => call[r].pc = "thrown"

\* C6: a proxy request whose getWithRetry call ended with an upstream
\* response of status >= 400 is answered with that status and the envelope
\* {message, status, data} around the upstream body.
C6_ErrorPassthrough ==
    \A r \in Reqs :
        (req[r].pc = "done" /\ Settled(r) /\ call[r].res.status >= 400) =>
            /\ req[r].resp.status = call[r].res.status
            /\ req[r].resp.shape = "envelope"
            /\ req[r].resp.upstream = call[r].res.status
            /\ req[r].resp.data =
                  IF call[r].res.data = "undefined" THEN "null" ELSE call[r].res.data

DelayTable == <<500, 1000, 2000, 4000>>

\* C7: a delay computed at attempt n without a hint is 500, 1000, 2000, 4000
\* for n = 1..4; a delay computed with a positive hint is that hint.
C7_BackoffPolicy ==
    \A r \in Started :
        LET b == call[r].backoff
        IN  b.n >= 1 =>
              /\ b.n \in 1..4
              /\ ~b.ra.has => b.ms = DelayTable[b.n]
              /\ (b.ra.has /\ b.ra.ms > 0) => b.ms = b.ra.ms
              /\ call[r].pc = "sleeping" => call[r].wakeAt >= b.ms

C7_Witness ==
    \E r \in Started :
        /\ call[r].backoff.n = 3
        /\ call[r].backoff.ra = Hint(9000)
        /\ call[r].backoff.ms = 9000
        /\ call[r].pc = "sleeping"

\* C8: a proxy-side delay computed with no hint or with a hint that is not
\* positive (a Retry-After date in the past, clamped to 0) is the computed
\* 500, 1000, 2000, 4000 and never zero.
C8_NoZeroWait ==
    \A r \in Started :
        LET b == call[r].backoff
        IN  (ProxySide(r) /\ b.n >= 1 /\ (~b.ra.has \/ b.ra.ms <= 0)) =>
              b.ms = DelayTable[b.n] /\ b.ms > 0

Checked == {r \in Reqs : req[r].pc # "idle" /\ req[r].key # <<>>}
FromCache(r) ==
    /\ req[r].pc = "done"
    /\ call[r].pc = "none"
    /\ req[r].resp.status = 200
    /\ req[r].resp.shape = "value"
    /\ req[r].resp.data = req[r].hit.value
SameKey(r, q) == req[r].ep = req[q].ep /\ req[r].key = req[q].key
OnlyTwo(r, q) == \A x \in Checked \ {r, q} : ~SameKey(x, r)
WindowMs(r) == IF req[r].ep = "search" THEN 20000 ELSE 60000

\* C9: a request is answered from the cache without an upstream call exactly
\* when the entry it read exists with now < expiresAt; of two identical
\* calls, the second made after the first stored its answer, the second goes
\* upstream exactly when the TTL (20 s search, 60 s paper) has run out.
C9_CacheHitIffFresh ==
    /\ \A r \in Checked :
          /\ FromCache(r) <=> (req[r].hit.has /\ req[r].now < req[r].hit.expiresAt)
          /\ ~FromCache(r) => call[r].attempt >= 1
    /\ \A r, q \in Checked :
          (r # q /\ SameKey(r, q) /\ OnlyTwo(r, q) /\ r \in req[q].after
             /\ req[r].stored) =>
              /\ req[q].now < req[r].now + WindowMs(r) => FromCache(q)
              /\ req[q].now >= req[r].now + WindowMs(r) => call[q].attempt >= 1

C9_Witness ==
    \E r, q \in Checked :
        /\ r # q /\ SameKey(r, q) /\ r \in req[q].after /\ req[r].stored
        /\ req[q].now > req[r].now
        /\ FromCache(q)
        /\ call[r].attempt >= 1

Failed(r) == call[r].pc \in {"thrown", "loopexit"} \/ call[r].res.status >= 400

\* every cache entry is the body of an upstream response with status < 400
\* received for its key; after an erroring call followed by an identical
\* succeeding call the success is cached
C10_EntriesAreSuccesses ==
    /\ \A ep \in DOMAIN cache : \A k \in DOMAIN cache[ep] :
          \E r \in Checked :
              /\ req[r].ep = ep /\ req[r].key = k /\ req[r].pc = "done"
              /\ call[r].pc = "returned"
              /\ call[r].res.status < 400
              /\ cache[ep][k].has
              /\ cache[ep][k].value = call[r].res.data
              /\ cache[ep][k].expiresAt = req[r].now + WindowMs(r)
    /\ \A r, q \in Checked :
          (r # q /\ SameKey(r, q) /\ OnlyTwo(r, q) /\ r \in req[q].after
             /\ call[r].pc # "none" /\ Failed(r)
             /\ req[q].pc = "done" /\ call[q].pc = "returned"
             /\ call[q].res.status < 400) =>
              /\ req[q].key \in DOMAIN cache[req[q].ep]
              /\ cache[req[q].ep][req[q].key].value = call[q].res.data

\* a handler that ends on an upstream error or a raised failure does not
\* write the cache
C10_FailureKeepsCache ==
    \A r \in Reqs :
        (req[r].pc = "awaiting" /\ req'[r].pc = "done" /\ Failed(r)) =>
            cache' = cache

\* C10: in every state the cache entries are bodies of upstream responses
\* with status < 400 (the success stays cached after error then success), and
\* no step that ends a request on a status >= 400 or a raised failure changes
\* the cache.
C10_CacheHoldsOnlySuccesses ==
    []C10_EntriesAreSuccesses /\ [][C10_FailureKeepsCache]_vars

C10_Witness ==
    \E r, q \in Checked :
        /\ r # q /\ SameKey(r, q) /\ r \in req[q].after
        /\ call[r].pc # "none" /\ Failed(r)
        /\ req[q].pc = "done" /\ call[q].pc = "returned"
        /\ cache[req[q].ep][req[q].key].value = call[q].res.data

\* the request a handler made of its input: trimmed name, clamped paging
Keyed(r) == req[r].pc # "idle" /\ req[r].name # <<>>
Normalized(r) == <<req[r].ep, req[r].name, req[r].in.limit, req[r].in.offset>>

\* C11: two requests of one endpoint get the same cache key exactly when
\* their normalized requests are the same (trimmed query, clamped limit and
\* clamped offset; trimmed paperId), also when the name contains "|".
C11_KeyInjective ==
    \A r, q \in Reqs :
        Keyed(r) /\ Keyed(q) /\ req[r].ep = req[q].ep =>
            (req[r].key = req[q].key <=> Normalized(r) = Normalized(q))

C11_Witness ==
    \E r, q \in Reqs :
        /\ Keyed(r) /\ Keyed(q)
        /\ req[r].ep = "search" /\ req[q].ep = "search"
        /\ req[r].name = <<"a", "|", "1">> /\ req[r].in.limit = 1
        /\ req[q].name = <<"a">> /\ req[q].in.limit = 1 /\ req[q].in.offset = 1
        /\ req[r].key # req[q].key

IsBlank(s) == \A k \in 1..Len(s) : s[k] = " "
Rejected(r) ==
    /\ req[r].pc = "done"
    /\ req[r].resp.status = 400
    /\ req[r].resp.shape = "message"

\* a request whose name is empty or blank is answered 400, has read no cache
\* entry and has started no upstream call
C12_BlankIsRejected ==
    \A r \in Reqs :
        req[r].pc # "idle" /\ IsBlank(req[r].in.raw) =>
            /\ Rejected(r)
            /\ req[r].hit = NoEntry /\ req[r].key = <<>>
            /\ call[r].pc = "none"

\* the step that takes such a request leaves caches and calls as they were
C12_BlankTouchesNothing ==
    \A r \in Reqs :
        req[r].pc = "idle" /\ req'[r].pc # "idle" /\ IsBlank(req'[r].in.raw) =>
            cache' = cache /\ call' = call

\* C12: a search request with an empty or whitespace-only query and a paper
\* request with an empty paperId are answered 400 without reading the cache,
\* without an upstream call and without changing the cache.
C12_BlankNameIs400 == []C12_BlankIsRejected /\ [][C12_BlankTouchesNothing]_vars

C12_Witness ==
    \E r \in Reqs :
        /\ req[r].ep = "search" /\ req[r].in.raw = <<" ">> /\ Rejected(r)
        /\ cache["search"] # <<>>

\* the limit and the offset the claim expects for a raw parameter
ClaimedLimit(p) == IF p.kind = "num" THEN Min(p.n, 100) ELSE 10
ClaimedOffset(p) == IF p.kind = "num" THEN Max(p.n, 0) ELSE 0

\* C13: the limit a search request forwards upstream is min(n, 100) when the
\* parameter is a number n and 10 when it is absent or not numeric; the
\* offset is max(m, 0) (0 when absent or not numeric); for every integer n
\* and m of the range, 0 and negative values included.
C13_Clamped ==
    \A r \in Reqs :
        req[r].pc = "awaiting" /\ req[r].ep = "search" =>
            /\ req[r].in.limit = ClaimedLimit(req[r].in.rawLimit)
            /\ req[r].in.offset = ClaimedOffset(req[r].in.rawOffset)

\* an invocation that has taken its request; one that has got past naming
Taken(s) == st[s].pc # "idle"
Named(s) == st[s].pdfBlobName # <<>>
Answered(s, status, step) ==
    /\ st[s].pc = "done"
    /\ st[s].resp.status = status
    /\ st[s].resp.step = step

\* what is left of a value when a data-URL prefix up to the first comma goes
AfterFirstComma(b) ==
    IF IndexOf(b, ",") = 0 THEN b ELSE SubSeq(b, IndexOf(b, ",") + 1, Len(b))
IsDataUrlOrBare(b) == \A k, j \in 1..Len(b) : b[k] = "," /\ b[j] = "," => k = j

PublisherPdf(u) ==
    u.ok /\ EndsWith(u.hostname, MdpiCom) /\ Includes(u.pathname, SlashPdf)
DirectFailed(s) == Len(st[s].got) >= 1 /\ ~PdfValidateStatus(st[s].got[1])

\* C15: in downloadPdfWithFallback the fallback is attempted exactly when the
\* direct fetch failed with status 403 and the URL matches the publisher
\* pattern; any other failure of the direct fetch propagates after exactly
\* one HTTP request.
C15_FallbackIff403AndPublisher ==
    \A s \in Stores :
        st[s].variant = "fallback" /\ Len(st[s].got) >= 1 =>
            /\ Len(st[s].http) >= 2 <=>
                  /\ st[s].got[1] = 403
                  /\ PublisherPdf(st[s].body.pdfUrl)
            /\ DirectFailed(s) /\ ~(st[s].got[1] = 403
                                     /\ PublisherPdf(st[s].body.pdfUrl)) =>
                  /\ Answered(s, 500, "download_pdf")
                  /\ Len(st[s].http) = 1
                  /\ st[s].wrote = <<>>

C15_Witness ==
    \E s \in Stores :
        /\ st[s].variant = "fallback"
        /\ st[s].got = <<403>>
        /\ st[s].body.pdfUrl.hostname = <<"x">> \o MdpiCom
        /\ st[s].pc = "landing"
        /\ Len(st[s].http) = 2

\* a body that lacks paperId, title, or both pdfUrl and pdfBase64
Lacking(body) ==
    \/ body.paperId = <<>>
    \/ body.title = <<>>
    \/ (~body.pdfUrl.given /\ body.pdfBase64 = <<>>)
Untouched(s) ==
    /\ st[s].storage = 0 /\ st[s].probes = 0
    /\ st[s].http = <<>> /\ st[s].wrote = <<>>
    /\ ~st[s].inline

\* such a request is answered 400 and has made no storage call, sent no HTTP
\* request and decoded no PDF
C16_LackingIsRejected ==
    \A s \in Stores :
        Taken(s) /\ st[s].body.parsed /\ Lacking(st[s].body) =>
            Answered(s, 400, "read_body") /\ Untouched(s)

C16_LackingTouchesNothing ==
    \A s \in Stores :
        ~Taken(s) /\ st'[s].pc # "idle" /\ Lacking(st'[s].body) => blobs' = blobs

\* C16: a store request that lacks paperId, title, or both pdfUrl and
\* pdfBase64 is answered 400 before any storage call and before any PDF
\* download, whether or not the storage credential is configured.
C16_ValidationComesFirst ==
    []C16_LackingIsRejected /\ [][C16_LackingTouchesNothing]_vars

C16_Witness ==
    \E s \in Stores :
        /\ Answered(s, 400, "read_body")
        /\ ~st[s].cred
        /\ st[s].body.paperId # <<>> /\ st[s].body.title # <<>>
        /\ ~st[s].body.pdfUrl.given /\ st[s].body.pdfBase64 = <<>>

\* C17: with the storage credential absent, a valid store request is
\* answered 500 with step create_blob_client; no storage call, no PDF
\* download and no retry is made.
C17_NoCredentialIs500 ==
    \A s \in Stores :
        Taken(s) /\ st[s].body.parsed /\ ~Lacking(st[s].body) /\ ~st[s].cred =>
            /\ Answered(s, 500, "create_blob_client")
            /\ st[s].resp.shape = "config"
            /\ Untouched(s)

C17_Witness ==
    \E s \in Stores :
        /\ Answered(s, 500, "create_blob_client")
        /\ ~st[s].cred
        /\ st[s].body.pdfUrl.given /\ st[s].body.pdfBase64 = <<>>

\* the names of a base that resolveUniqueBlobName may probe, by their index
TakenBelow(s, k) ==
    \A j \in 0..(k - 1) : Exists(blobs, Candidate(st[s].base, j, PdfExt))
Exhausted(s) == Answered(s, 500, "build_blob_names") /\ st[s].i = 999

\* C18: resolveUniqueBlobName returns the first name of base.ext,
\* base(1).ext, base(2).ext, ... that does not exist in the container, makes
\* at most 999 existence probes, and fails when every probed name exists.
C18_FirstFreeName ==
    \A s \in Stores :
        /\ st[s].probes <= 999
        /\ Named(s) /\ st[s].wrote = <<>> =>
              /\ st[s].pdfBlobName = Candidate(st[s].base, st[s].i, PdfExt)
              /\ ~Exists(blobs, st[s].pdfBlobName)
              /\ TakenBelow(s, st[s].i)
              /\ st[s].probes = st[s].i + 1
        /\ Exhausted(s) => st[s].probes = 999 /\ TakenBelow(s, 999)
        /\ Named(s) /\ st[s].wrote = <<>> => ~TakenBelow(s, 999)

C18_Witness ==
    \E s \in Stores :
        /\ Named(s)
        /\ st[s].pdfBlobName = Candidate(BaseT, 998, PdfExt)
        /\ st[s].probes = 999

\* C19: no store invocation uploads onto a blob name that exists at the
\* time of the upload, and two successful stores never return the same
\* pdfBlobName, concurrent invocations with the same base name included.
C19_NoCollision ==
    /\ \A s \in Stores : \A k \in 1..Len(st[s].wrote) : ~st[s].wrote[k].onto
    /\ \A s, t \in Stores :
          s # t /\ Answered(s, 200, "done") /\ Answered(t, 200, "done") =>
              st[s].resp.pdfBlobName # st[t].resp.pdfBlobName

SameName(s) == {t \in Stores \ {s} : st[t].pdfBlobName = st[s].pdfBlobName}

\* C20: the PDF blob is uploaded before the JSON blob, as two independent
\* writes: when the JSON upload fails the PDF blob stays without its JSON
\* sibling and the 500 answer carries step upload_json; every JSON blob the
\* handler has written has its sibling PDF blob already written.
C20_PdfBeforeJson ==
    /\ \A s \in Stores :
          /\ Len(st[s].wrote) <= 2
          /\ Len(st[s].wrote) >= 1 => st[s].wrote[1].name = st[s].pdfBlobName
          /\ Len(st[s].wrote) = 2 => st[s].wrote[2].name = st[s].jsonBlobName
          /\ Answered(s, 500, "upload_json") =>
                /\ Len(st[s].wrote) = 1
                /\ Exists(blobs, st[s].pdfBlobName)
                /\ BlobAt(blobs, st[s].pdfBlobName).kind = "pdf"
                /\ SameName(s) = {} => ~Exists(blobs, st[s].jsonBlobName)
    /\ \A n \in DOMAIN blobs.new :
          blobs.new[n].kind = "json" =>
              /\ Exists(blobs, blobs.new[n].data)
              /\ BlobAt(blobs, blobs.new[n].data).kind = "pdf"

C20_Witness ==
    \E s \in Stores :
        /\ Answered(s, 500, "upload_json")
        /\ BlobAt(blobs, st[s].pdfBlobName).by = s
        /\ ~Exists(blobs, st[s].jsonBlobName)
        /\ \E n \in DOMAIN blobs.new : blobs.new[n].kind = "json"

\* the stage each awaited operation of the handler belongs to
StageOf(pc) ==
    CASE pc = "idle" -> "read_body"
      [] pc = "create_container" -> "create_container_if_not_exists"
      [] pc = "probe" -> "build_blob_names"
      [] pc \in {"direct", "landing", "retry"} -> "download_pdf"
      [] pc = "upload_pdf" -> "upload_pdf"
      [] pc = "upload_json" -> "upload_json"
      [] OTHER -> ""
Raised(s) == st[s].pc = "done" /\ st[s].failedAt # ""

\* C21: every failure raised inside the store handler yields a 500 response
\* whose step names the stage in progress when it failed, and a 200 response
\* with pdfBlobName and its sibling jsonBlobName is returned only after both
\* blobs were written.
C21_StepNamesFailedStage ==
    \A s \in Stores :
        /\ Raised(s) =>
              /\ st[s].resp.status = 500
              /\ st[s].resp.step = StageOf(st[s].failedAt)
              /\ st[s].resp.step # ""
        /\ st[s].pc = "done" /\ st[s].resp.status = 200 =>
              /\ st[s].resp.pdfBlobName # <<>>
              /\ st[s].resp.jsonBlobName = JsonNameOf(st[s].resp.pdfBlobName)
              /\ Len(st[s].wrote) = 2
              /\ st[s].wrote[1].name = st[s].resp.pdfBlobName
              /\ st[s].wrote[2].name = st[s].resp.jsonBlobName
              /\ BlobAt(blobs, st[s].resp.pdfBlobName).by = s
              /\ Exists(blobs, st[s].resp.jsonBlobName)
              /\ blobs.new[st[s].resp.jsonBlobName].kind = "json"

C21_Witness ==
    \E s \in Stores :
        /\ Raised(s)
        /\ st[s].failedAt = "retry"
        /\ st[s].resp.step = "download_pdf"

Clicked == view.pc # "idle" /\ view.paper.pdfUrl.given
Opened == view.opened = 1

\* the action is over only with the PDF opened, and opens it once
C22_DoneMeansOpened ==
    /\ view.opened <= 1
    /\ view.pc = "done" /\ view.paper.pdfUrl.given => Opened

\* C22: in downloadPdf, whenever an open-access PDF URL is present the PDF
\* is eventually opened, whether the store call or the PDF fetch before it
\* succeed or fail; a persistence failure is logged and does not cancel the
\* opening.
C22_PdfIsOpened == []C22_DoneMeansOpened /\ (Clicked ~> Opened)

C22_Witness ==
    /\ Opened
    /\ view.logged
    /\ st[1].pc = "done" /\ st[1].resp.status = 500
    /\ st[1].resp.step = "upload_json"

\* C23: when a 503 response carries a positive Retry-After value (a count
\* of seconds), the delay before the next attempt equals that value, on the
\* proxy side and on the browser side, as for status 429.
C23_RetryAfterOn503 ==
    \A r \in Started :
        LET b == call[r].backoff
        IN  (/\ b.n >= 1 /\ Len(call[r].hist) >= b.n
             /\ call[r].hist[b.n].status = 503
             /\ b.hdr.form = "secs" /\ b.hdr.n > 0) =>
                b.ms = b.hdr.n * 1000

\* a publisher PDF link, its landing page, and two Set-Cookie headers with
\* the Cookie header they make
PublisherLink == Given(Url(WwwMdpiCom, PaperPath \o SlashPdf, <<"?", "v">>))
PublisherPage == Given(Url(WwwMdpiCom, PaperPath, <<>>))
TwoSetCookies == << <<"k", "=", "1", ";", "x">>, <<"j", "=", "2">> >>
TwoCookies == <<"k", "=", "1", ";", " ", "j", "=", "2">>
Acquired(s) ==
    /\ st[s].pdfBytes = PdfData
    /\ st[s].failedAt \notin {"direct", "landing", "retry"}
    /\ st[s].step \in {"upload_pdf", "upload_json", "done"}

\* C24: the fallback of downloadPdfWithFallback makes, in this order and
\* once each, the landing-page fetch, the cookie extraction and one retry of
\* the PDF URL with those cookies and the landing page as Referer; a 2xx
\* retry succeeds, a failed landing-page fetch or retry propagates with no
\* further attempt, and no run makes more than 3 HTTP requests.
C24_FallbackSequence ==
    \A s \in Stores :
        LET h == st[s].http
            g == st[s].got
        IN  /\ Len(h) <= 3 /\ Len(g) <= Len(h)
            /\ Len(h) >= 1 => h[1].kind = "pdf" /\ h[1].url = st[s].body.pdfUrl
            /\ Len(h) >= 2 =>
                  /\ g[1] = 403
                  /\ h[2].kind = "html" /\ h[2].cookie = <<>>
                  /\ st[s].body.pdfUrl = PublisherLink => h[2].url = PublisherPage
            /\ Len(h) = 3 =>
                  /\ PdfValidateStatus(g[2])
                  /\ h[3].kind = "pdf" /\ h[3].url = st[s].body.pdfUrl
                  /\ h[3].referer = h[2].url
                  /\ st[s].setCookie = TwoSetCookies => h[3].cookie = TwoCookies
                  /\ st[s].setCookie = <<>> => h[3].cookie = <<>>
            /\ Len(g) = 2 /\ ~PdfValidateStatus(g[2]) =>
                  Answered(s, 500, "download_pdf") /\ Len(h) = 2
            /\ Len(g) = 3 =>
                  IF g[3] >= 200 /\ g[3] < 300 THEN Acquired(s)
                  ELSE ~PdfValidateStatus(g[3]) => Answered(s, 500, "download_pdf")

C24_Witness ==
    \E s \in Stores :
        /\ st[s].body.pdfUrl = PublisherLink
        /\ st[s].got = <<403, 200, 200>>
        /\ st[s].setCookie = TwoSetCookies
        /\ Len(st[s].http) = 3
        /\ st[s].http[3].cookie = TwoCookies
        /\ Answered(s, 200, "done")

\* the step in which request r stores its answer
Stores25(r) == req[r].pc = "awaiting" /\ req'[r].stored
C25_FreshAtWrite ==
    \A r \in Reqs :
        Stores25(r) => cache'[req[r].ep][req[r].key].expiresAt > clock'

\* C25: every entry written to the proxy cache is unexpired at the moment
\* it is written, however long the upstream attempts, timeouts and backoff
\* delays of the writing request took.
C25_EntryFreshWhenWritten == [][C25_FreshAtWrite]_vars

C26_NoEarlierExpiry ==
    \A ep \in DOMAIN cache : \A k \in DOMAIN cache[ep] :
        cache'[ep][k].expiresAt >= cache[ep][k].expiresAt

\* C26: for concurrent proxy requests on the same cache key a cache write
\* never replaces an entry by one with an earlier expiresAt: the expiresAt
\* stored for a key never decreases.
C26_ExpiryNeverDecreases == [][C26_NoEarlierExpiry]_vars

\* the PDF was not acquired: the last request of the download stage was
\* left unanswered or answered 4xx / 5xx, and the handler is over
AcquisitionFailed(s) ==
    /\ st[s].pc = "done"
    /\ st[s].got # <<>>
    /\ LET last == st[s].got[Len(st[s].got)] IN last = 0 \/ last >= 400
WroteNothing(s) ==
    /\ st[s].wrote = <<>>
    /\ \A n \in DOMAIN blobs.new : blobs.new[n].by # s
C27_FailedDownloadState ==
    \A s \in Stores :
        AcquisitionFailed(s) =>
            /\ Named(s)
            /\ WroteNothing(s)
            /\ blobs.new = EmptyContainer.new
            /\ Answered(s, 500, "download_pdf")
\* the step on which the download fails leaves the container as it was
C27_FailingStepWritesNothing ==
    \A s \in Stores :
        ~AcquisitionFailed(s) /\ AcquisitionFailed(s)' => blobs' = blobs

\* C27: when PDF acquisition fails in the store handler, no PDF blob and
\* no JSON blob is written: the blobs of the container are those it held
\* before the request, although the blob name was already resolved, and
\* the response is 500 with step download_pdf.
C27_FailedDownloadWritesNothing ==
    []C27_FailedDownloadState /\ [][C27_FailingStepWritesNothing]_vars

C27_Witness ==
    \E s \in Stores :
        /\ AcquisitionFailed(s)
        /\ st[s].variant = "fallback"
        /\ st[s].got = <<403, 200, 404>>
        /\ blobs.old.ids = {0, 1}
        /\ st[s].pdfBlobName = Candidate(BaseT, 2, PdfExt)
        /\ Answered(s, 500, "download_pdf")

CallPending(r) == call[r].pc \in {"fetching", "sleeping"}
Validated(side, status) ==
    IF side = "browser" THEN BrowserValidateStatus(status)
                        ELSE ProxyValidateStatus(status)
\* the statement after the loop is not reached; what a call returns is the
\* response received last, what it raises is the error received last
C29_NoLoopExit ==
    \A r \in Reqs :
        /\ call[r].pc # "loopexit"
        /\ Settled(r) =>
              /\ call[r].hist # <<>>
              /\ Seen(call[r].res) = call[r].hist[Len(call[r].hist)]
        /\ call[r].pc = "returned" =>
              /\ call[r].res.status # 0
              /\ Validated(call[r].side, call[r].res.status)
        /\ call[r].pc = "thrown" =>
              \/ call[r].res.status = 0
              \/ ~Validated(call[r].side, call[r].res.status)

\* C29: provided every upstream call returns or fails, each getWithRetry
\* call terminates by returning a response or by raising the last upstream
\* error; the statement throwing "unexpected retry loop exit" after the
\* loop is never reached.
C29_RetryTerminates == []C29_NoLoopExit /\ (CallPending(1) ~> Settled(1))

C29_Witness ==
    /\ call[1].pc = "thrown"
    /\ call[1].side = "browser"
    /\ call[1].attempt = maxAttempts
    /\ call[1].sleeps = maxAttempts - 1
    /\ call[1].res.status = 503

RECURSIVE SumAttempts(_)
SumAttempts(K) ==
    IF K = {} THEN 0
    ELSE LET k == CHOOSE x \in K : TRUE
         IN  call[k].attempt + SumAttempts(K \ {k})
\* the requests sent to the upstream provider on behalf of the browser call
UpstreamRequests == SumAttempts(Hops)
Invocations == {k \in Hops : req[k].pc # "idle"}
FoundFresh(k) ==
    /\ req[k].pc # "idle"
    /\ req[k].hit.has
    /\ req[k].hit.expiresAt > req[k].now

\* C28: one browser-side searchPapers or getPaper call causes at most 16
\* requests to the upstream provider: the browser-side getWithRetry sends
\* at most 4 requests to the proxy, each proxy request makes at most 4
\* upstream attempts, and a cache hit in the proxy makes none.
C28_AtMostSixteenUpstream ==
    /\ call[Browser].attempt <= 4
    /\ Cardinality(Invocations) <= call[Browser].attempt
    /\ \A k \in Hops : call[k].attempt <= 4
    /\ \A k \in Hops : FoundFresh(k) => call[k].attempt = 0 /\ FromCache(k)
    /\ UpstreamRequests <= 16

C28_Witness ==
    /\ call[Browser].pc = "thrown"
    /\ UpstreamRequests = 16
    /\ \A k \in Hops : req[k].pc = "done"

====
